---- MODULE Spec2Model ----
(***************************************************************************)
(* Model of the RoboGen viewer (src/src/viewer/Viewer.cpp): the frame      *)
(* pacing of Viewer::frame, the capture hook SnapImageDrawCallback, the    *)
(* recorder Viewer::record and the scene composition of                    *)
(* Viewer::configureScene; and of the scenario factory                     *)
(* JSScenario::createScenario (src/src/scenario/JSScenario.cpp).           *)
(*                                                                         *)
(* Units.  The wall clock (boost microsec_clock) is counted in clock units *)
(* of 1/ClockPerMs millisecond.  elapsedWallTime, timeSinceLastFrame and   *)
(* simulatedTime are counted in whole milliseconds: the code adds          *)
(* diff.total_milliseconds()/1000.0, a whole number of milliseconds, so    *)
(* the sums are whole milliseconds (double rounding is not modelled).      *)
(* speedFactor is a ratio num/den.                                         *)
(***************************************************************************)
EXTENDS Integers, Sequences, FiniteSets, TLC

\* ------------------------------------------------------------------ bounds
\* clock units per millisecond (the real clock has 1000)
ClockPerMs == 2
\* largest wall-clock advance between two calls of frame, in clock units
MaxAdvance == 4
\* the run is cut when elapsedWallTime would exceed this many milliseconds
MaxElapsed == 3
\* largest simulated time (ms) and timestep index a caller passes
MaxSimTime == 1
MaxTimeSteps == 1
\* largest recordFrequency passed to the constructor
MaxRecordFrequency == 2
\* no capture is armed beyond this many
MaxFrames == 2
\* scene inputs
MaxBodyParts == 3
MaxObstacles == 2
\* number of calls of JSScenario::createScenario
MaxScenarios == 3
\* largest wall-clock time between the two clock samples of one call of
\* frame, and the clock units after which the wall clock is no longer
\* followed
MaxGap == 1
MaxWall == 8

\* ------------------------------------------------------- program constants
\* MAX_TIME_BETWEEN_FRAMES of viewer/Viewer.h (the starvation bound, a
\* positive time), in the milliseconds of this model
MAX_TIME_BETWEEN_FRAMES == 2
\* field width of boost::format("%|04|")
FormatWidth == 4

VARIABLES
    speedFactor,            \* Viewer::speedFactor, [num, den]
    recording,              \* Viewer::recording
    recordFrequency,        \* Viewer::recordFrequency (only set when recording)
    recordDirectoryName,    \* Viewer::recordDirectoryName
    paused,                 \* KeyboardHandler state read by Viewer::isPaused
    tick1,                  \* Viewer::tick1, relative to the latest clock sample
    elapsedWallTime,        \* Viewer::elapsedWallTime, ms
    timeSinceLastFrame,     \* Viewer::timeSinceLastFrame, ms
    frameCount,             \* Viewer::frameCount
    snapImageOnNextFrame,   \* SnapImageDrawCallback::_snapImageOnNextFrame
    filename,               \* SnapImageDrawCallback::_filename
    files,                  \* image files written so far, in order
    crashed,                \* the process trapped (integer division by zero)
    call,                   \* what the latest call of frame did
    cleanRun,               \* no call so far was paused or throttled
    numRecords,             \* number of calls of Viewer::record so far
    failedWrites,           \* some osgDB::writeImageFile failed so far
    bodyParts,              \* argument of the latest configureScene
    numObstacles,           \* scenario->getObstacles().size() of that call
    root,                   \* children of Viewer::root, in order
    sceneResult,            \* "none", "ok" or "failed": result of configureScene
    lastTick,               \* what the latest call of frame did to the clock
    wallClock,              \* clock units from construction to the latest
                            \* sample, followed while no call was paused
    scenarios,              \* keys of JSScenario::scenarios
    liveScenarios,          \* ids of the scenarios returned and not destroyed
    nextId,                 \* the next uuid of the generator
    lastCreate              \* what the latest createScenario did

frameVars == <<speedFactor, recording, recordFrequency, recordDirectoryName,
               paused, tick1, elapsedWallTime, timeSinceLastFrame, frameCount,
               snapImageOnNextFrame, filename, files, crashed, call,
               cleanRun, numRecords, failedWrites>>
sceneVars == <<bodyParts, numObstacles, root, sceneResult>>
scenarioVars == <<scenarios, liveScenarios, nextId, lastCreate>>
clockVars == <<lastTick, wallClock>>
vars == <<frameVars, sceneVars, clockVars, scenarioVars>>

\* --------------------------------------------------------------- helpers
DigitChar == <<"0", "1", "2", "3", "4", "5", "6", "7", "8", "9">>

RECURSIVE Digits(_)
Digits(n) == IF n < 10 THEN DigitChar[n + 1]
             ELSE Digits(n \div 10) \o DigitChar[(n % 10) + 1]

RECURSIVE ZeroPad(_, _)
ZeroPad(s, w) == IF Len(s) < w THEN ZeroPad("0" \o s, w) ELSE s

\* boost::format("%|04|") % frameCount
Format04(n) == ZeroPad(Digits(n), FormatWidth)

\* ss << recordDirectoryName << "/" << format << ".jpg"
FileName(dir, n) == dir \o "/" \o Format04(n) \o ".jpg"

\* diff.total_milliseconds(): the whole milliseconds of a clock difference
TotalMilliseconds(d) == d \div ClockPerMs

\* simulatedTime > (elapsedWallTime * speedFactor)
Throttled(sim, el, sf) == sim * sf.den > el * sf.num

\* a starvation test that misses the bound itself
Starved_Strict(tsl) == tsl > MAX_TIME_BETWEEN_FRAMES

\* timeSinceLastFrame >= MAX_TIME_BETWEEN_FRAMES
Starved(tsl) == tsl >= MAX_TIME_BETWEEN_FRAMES

\* a cadence test that forgets recordFrequency
CaptureDue_EveryStep(rec, n, freq, ub) == rec

\* recording && (numTimeSteps % recordFrequency == 0); with recordFrequency
\* = 0 the remainder is undefined and ub is what the build makes of it
CaptureDue(rec, n, freq, ub) ==
    rec /\ (IF freq = 0 THEN ub = "true" ELSE n % freq = 0)

\* an outer condition without the throttle term
ShouldDraw_NoThrottle(p, due, sim, el, sf, tsl) ==
    p \/ due \/ Starved(tsl)

\* an outer condition without the starvation term
ShouldDraw_NoStarvation(p, due, sim, el, sf, tsl) ==
    p \/ due \/ Throttled(sim, el, sf)

\* an outer condition without the recording cadence term
ShouldDraw_NoCadence(p, due, sim, el, sf, tsl) ==
    p \/ Throttled(sim, el, sf) \/ Starved(tsl)

\* the condition of the outer if of Viewer::frame
ShouldDraw(p, due, sim, el, sf, tsl) ==
    p \/ due \/ Throttled(sim, el, sf) \/ Starved(tsl)

\* an inner condition without the pause term
LoopBack_NoPause(p, sim, el, sf) == Throttled(sim, el, sf)

\* the condition of the inner if of Viewer::frame ("loop back around")
LoopBack(p, sim, el, sf) == p \/ Throttled(sim, el, sf)

\* ------------------------------------------------------------------ Init
SpeedFactors == {[num |-> 0, den |-> 1], [num |-> 1, den |-> 2],
                 [num |-> 1, den |-> 1]}

NoCall == [kind |-> "none"]

NoTick == [advance |-> 0, added |-> 0, sinceAdded |-> 0, pausedRun |-> 0,
           pausedBefore |-> 0, everPaused |-> FALSE, odd |-> FALSE]

NoCreate == [outcome |-> "none"]

\* Viewer::init, reached from the three constructors.  Without recording
\* init leaves frameCount, recordFrequency and recordDirectoryName unset
\* and frame never reads them; they stand at 0 and "" here.
InitViewer(startPaused, sf, rec, freq) ==
    /\ paused = startPaused
    /\ speedFactor = sf
    /\ tick1 = 0
    /\ elapsedWallTime = 0
    /\ timeSinceLastFrame = 0
    /\ recording = rec
    /\ frameCount = 0
    /\ recordFrequency = (IF rec THEN freq ELSE 0)
    /\ recordDirectoryName = (IF rec THEN "rec" ELSE "")
    /\ snapImageOnNextFrame = FALSE
    /\ filename = ""
    /\ files = <<>>
    /\ crashed = FALSE
    /\ call = NoCall
    /\ cleanRun = TRUE
    /\ numRecords = 0
    /\ failedWrites = FALSE
    /\ bodyParts = <<>>
    /\ numObstacles = 0
    /\ root = <<>>
    /\ sceneResult = "none"
    /\ lastTick = NoTick
    /\ wallClock = 0
    \* the static map JSScenario::scenarios starts empty
    /\ scenarios = {}
    /\ liveScenarios = {}
    /\ nextId = 1
    /\ lastCreate = NoCreate

Init == \E startPaused \in BOOLEAN, sf \in SpeedFactors, rec \in BOOLEAN,
           freq \in 0..MaxRecordFrequency :
            InitViewer(startPaused, sf, rec, freq)

\* ------------------------------------------------ SnapImageDrawCallback
\* operator(): the files on disk after the post-draw hook ran
CallbackFiles(snap, fname, fs, writeOk) ==
    IF snap /\ writeOk THEN Append(fs, fname) ELSE fs

\* a hook that forgets to disarm itself
CallbackFlag_Sticky(snap) == snap

\* operator(): _snapImageOnNextFrame after the post-draw hook ran
CallbackFlag(snap) == FALSE

\* ---------------------------------------------------------- Viewer::record
\* the file name record() hands to the hook
RecordFileName(dir, fc) == FileName(dir, fc)

\* a record() that forgets frameCount++
RecordFrameCount_Stuck(fc) == fc

\* frameCount after record()
RecordFrameCount(fc) == fc + 1

\* ----------------------------------------------------------- Viewer::frame
\* KeyboardHandler::handle runs in the event traversal of viewer->frame():
\* a pending P key toggles the pause state while the frame is rendered
AfterEvents(p, keyP) == IF keyP THEN ~p ELSE p

\* a frame that keeps the tick1 of the previous call
ResampleTick1_Keep(old) == old

\* this->tick1 = microsec_clock::universal_time() (line 222), relative to
\* the sample just taken
ResampleTick1(old) == 0

\* a frame that never resets timeSinceLastFrame
SinceFrameAfter_NoReset(draw, tsl) == tsl

\* timeSinceLastFrame when frame ends: reset after viewer->frame()
SinceFrameAfter(draw, tsl) == IF draw THEN 0 ELSE tsl

\* a frame that records before it tests whether to loop back
RecordReached_BeforeLoopBack(back, due) == due

\* record() is called: the call did not return false at line 247 and the
\* cadence test of line 251 holds
RecordReached(back, due) == ~back /\ due

UBOutcomes == {"trap", "true", "false"}

\* The rest of frame once the frame is drawn (or not).  p1: isPaused() at
\* the decision; el, tsl: the clock after the update; due: the cadence
\* test; draw: the outer condition; p2: isPaused() after the draw; back:
\* the call returns false; writeOk: osgDB::writeImageFile succeeds.
FrameRest(sim, n, newTick1, writeOk, trap1, p1, el, tsl, undefinedTrap, due, draw, p2, back) ==
    LET hook     == draw /\ recording
        armed    == hook /\ snapImageOnNextFrame
        newFiles == IF hook
                    THEN CallbackFiles(snapImageOnNextFrame, filename,
                                       files, writeOk)
                    ELSE files
        \* line 251 is evaluated when the call did not return false
        trap2    == ~back /\ undefinedTrap
        doRecord == RecordReached(back, due)
        \* _snapImageOnNextFrame when line 251 is reached
        flagAtRecord == IF hook THEN CallbackFlag(snapImageOnNextFrame)
                        ELSE snapImageOnNextFrame
    IN  /\ doRecord => frameCount < MaxFrames
        /\ IF trap1 \/ trap2
           THEN /\ crashed' = TRUE
                /\ call' = [kind |-> "trapped", sim |-> sim, steps |-> n]
                /\ files' = (IF trap1 THEN files ELSE newFiles)
                /\ UNCHANGED <<paused, tick1, elapsedWallTime,
                               timeSinceLastFrame, frameCount,
                               snapImageOnNextFrame, filename,
                               cleanRun, numRecords, failedWrites>>
           ELSE /\ crashed' = FALSE
                /\ call' = [kind |-> "returned", sim |-> sim, steps |-> n,
                            pausedAtEntry |-> p1, rendered |-> draw,
                            ret |-> ~back, recorded |-> doRecord,
                            sinceFrame |-> tsl,
                            rearmed |-> doRecord /\ flagAtRecord]
                /\ tick1' = newTick1
                /\ elapsedWallTime' = el
                /\ timeSinceLastFrame' = SinceFrameAfter(draw, tsl)
                /\ paused' = p2
                /\ files' = newFiles
                /\ snapImageOnNextFrame' =
                       (IF doRecord THEN TRUE ELSE flagAtRecord)
                /\ filename' = (IF doRecord
                                THEN RecordFileName(recordDirectoryName,
                                                    frameCount)
                                ELSE filename)
                /\ frameCount' = (IF doRecord THEN RecordFrameCount(frameCount)
                                  ELSE frameCount)
                /\ cleanRun' = (cleanRun /\ ~p1 /\ ~p2
                                /\ ~Throttled(sim, el, speedFactor))
                /\ numRecords' = (IF doRecord THEN numRecords + 1
                                  ELSE numRecords)
                /\ failedWrites' = (failedWrites \/ (armed /\ ~writeOk))

\* viewer->frame() and the inner test of frame.  While the frame is drawn
\* a pending P key is handled (keyP) and an armed hook writes its file
\* (writeOk).
FrameDraw(sim, n, newTick1, trap1, p1, el, tsl, undefinedTrap, due, draw) ==
    \E keyP \in (IF draw /\ ~trap1 THEN BOOLEAN ELSE {FALSE}) :
        \E writeOk \in (IF draw /\ ~trap1 /\ recording
                           /\ snapImageOnNextFrame
                        THEN BOOLEAN ELSE {TRUE}) :
            LET p2 == IF draw THEN AfterEvents(p1, keyP) ELSE p1
            IN  FrameRest(sim, n, newTick1, writeOk, trap1, p1, el, tsl,
                          undefinedTrap, due, draw, p2,
                          draw /\ LoopBack(p2, sim, el, speedFactor))

\* The draw decision of frame, after the clock update.  ub: outcome of
\* numTimeSteps % 0.
FrameDecide(sim, n, newTick1, ub, p1, el, tsl) ==
    LET undefinedTrap == recording /\ recordFrequency = 0 /\ ub = "trap"
        due == CaptureDue(recording, n, recordFrequency, ub)
    IN  /\ el <= MaxElapsed
        \* line 234 is only evaluated when isPaused() is false
        /\ FrameDraw(sim, n, newTick1, ~p1 /\ undefinedTrap, p1, el, tsl,
                     undefinedTrap, due,
                     ShouldDraw(p1, due, sim, el, speedFactor, tsl))

\* One call frame(sim, n) whose first clock sample gives frameTime
\* milliseconds and whose second one leaves newTick1 in tick1.
Frame(sim, n, frameTime, newTick1, ub) ==
    /\ ~crashed
    /\ FrameDecide(sim, n, newTick1, ub, paused,
                   IF paused THEN elapsedWallTime
                   ELSE elapsedWallTime + frameTime,
                   IF paused THEN timeSinceLastFrame
                   ELSE timeSinceLastFrame + frameTime)
    /\ UNCHANGED <<speedFactor, recording, recordFrequency,
                   recordDirectoryName>>
    /\ UNCHANGED <<sceneVars, scenarioVars>>

\* what the two clock samples of a call can give: the wall clock advanced
\* by d since the latest sample (lines 213-216 and 222)
ClockSamples ==
    {[frameTime |-> TotalMilliseconds(d - tick1),
      tick1 |-> ResampleTick1(tick1 - d)] : d \in 0..MaxAdvance}

FrameCall ==
    \E sim \in 0..MaxSimTime, n \in 0..MaxTimeSteps, c \in ClockSamples,
       ub \in (IF recording /\ recordFrequency = 0 THEN UBOutcomes
               ELSE {"false"}) :
        Frame(sim, n, c.frameTime, c.tick1, ub) /\ UNCHANGED clockVars

Next == FrameCall

Spec == Init /\ [][Next]_vars

\* ------------------------------------------------- Viewer::configureScene
\* what RobogenUtils::createRenderModel and RenderModel::initRenderModel do
\* for one body part: "ok", "null" (no render model) or "initFail"
PartOutcomes == {"ok", "null", "initFail"}

BodyRenderable(i) == [kind |-> "body", index |-> i]
TerrainRenderable == [kind |-> "terrain", index |-> 0]
ObstacleRenderable(i) == [kind |-> "obstacle", index |-> i]

\* the loop over bodyParts from part i on: the children of root when the
\* loop ends and whether it ran to the end
RECURSIVE AttachBodyParts(_, _, _)
AttachBodyParts(children, parts, i) ==
    IF i > Len(parts) THEN [children |-> children, ok |-> TRUE]
    ELSE IF parts[i] # "ok" THEN [children |-> children, ok |-> FALSE]
    ELSE AttachBodyParts(Append(children, BodyRenderable(i)), parts, i + 1)

\* a terrain attached in front of the body parts
AttachTerrain_First(children) == <<TerrainRenderable>> \o children

\* root->addChild(terrainRender->getRootNode())
AttachTerrain(children) == Append(children, TerrainRenderable)

\* the loop over scenario->getObstacles()
AttachObstacles(children, o) ==
    children \o [i \in 1..o |-> ObstacleRenderable(i)]

\* One call configureScene(parts, scenario) on a freshly constructed viewer
\* (the scene is composed once per viewer).
ConfigureScene(parts, o) ==
    LET loop == AttachBodyParts(root, parts, 1)
    IN  /\ sceneResult = "none"
        /\ bodyParts' = parts
        /\ numObstacles' = o
        /\ IF loop.ok
           THEN /\ root' = AttachObstacles(AttachTerrain(loop.children), o)
                /\ sceneResult' = "ok"
           ELSE /\ root' = loop.children
                /\ sceneResult' = "failed"
        /\ UNCHANGED <<frameVars, clockVars, scenarioVars>>

PartLists == UNION {[1..b -> PartOutcomes] : b \in 0..MaxBodyParts}

ConfigureSceneCall ==
    \E parts \in PartLists, o \in 0..MaxObstacles : ConfigureScene(parts, o)

NextScene == ConfigureSceneCall

SpecScene == Init /\ [][NextScene]_vars

\* ------------------------------------------------- the clock of frame
\* One call of frame made d clock units after the previous clock sample,
\* with what it did to the clock written down: the wall clock advance,
\* what the call added to elapsedWallTime and to timeSinceLastFrame
\* (before the reset), how many calls in a row up to this one
\* (pausedRun) and up to the one before (pausedBefore) read the pause
\* signal as true at line 215 (counted up to 2), and whether the number
\* of calls so far is odd.
FrameAt(sim, n, d, ub) ==
    /\ Frame(sim, n, TotalMilliseconds(d - tick1), ResampleTick1(tick1 - d),
             ub)
    /\ lastTick' =
           [advance |-> d,
            added |-> elapsedWallTime' - elapsedWallTime,
            sinceAdded |-> IF call'.kind = "returned"
                           THEN call'.sinceFrame - timeSinceLastFrame
                           ELSE 0,
            pausedRun |-> IF ~paused THEN 0
                          ELSE IF lastTick.pausedRun >= 2 THEN 2
                          ELSE lastTick.pausedRun + 1,
            pausedBefore |-> lastTick.pausedRun,
            everPaused |-> lastTick.everPaused \/ paused,
            odd |-> ~lastTick.odd]

\* the viewers of the constructors Viewer(startPaused) and
\* Viewer(startPaused, speedFactor): no recording
InitClock == \E startPaused \in BOOLEAN, sf \in SpeedFactors :
                InitViewer(startPaused, sf, FALSE, 0)

\* a call of frame whose clock samples are taken d clock units after the
\* previous sample (line 213) and g clock units later (line 222); the
\* wall clock is followed up to the first paused call
ClockCall ==
    \E sim \in 0..MaxSimTime, n \in 0..MaxTimeSteps, d \in 0..MaxAdvance :
        IF lastTick.everPaused \/ paused
        THEN FrameAt(sim, n, d, "false") /\ wallClock' = 0
        ELSE \E g \in 0..MaxGap :
                /\ wallClock + d + g <= MaxWall
                /\ FrameAt(sim, n, d, "false")
                /\ wallClock' = wallClock + d + g

NextClock == ClockCall

SpecClock == InitClock /\ [][NextClock]_vars

\* ------------------------------------------------- the simulation loop
\* The arguments of the next call of frame by the loop that steps the
\* simulation: it starts at timestep 0, steps to the next timestep (one
\* millisecond of simulated time later) after frame returned true and
\* calls again with the same arguments after frame returned false.
LoopArgs ==
    IF call.kind = "none" THEN [sim |-> 0, steps |-> 0]
    ELSE IF call.ret THEN [sim |-> call.sim + 1, steps |-> call.steps + 1]
    ELSE [sim |-> call.sim, steps |-> call.steps]

\* the next call of frame by that loop
LoopCall ==
    /\ ~crashed
    /\ LoopArgs.sim <= MaxSimTime
    /\ LoopArgs.steps <= MaxTimeSteps
    /\ \E d \in 0..MaxAdvance,
          ub \in (IF recording /\ recordFrequency = 0 THEN UBOutcomes
                  ELSE {"false"}) :
           FrameAt(LoopArgs.sim, LoopArgs.steps, d, ub)
    /\ UNCHANGED wallClock

NextLoop == LoopCall

\* the loop keeps calling frame while the simulation is not over
SpecLoop == Init /\ [][NextLoop]_vars /\ WF_vars(LoopCall)

\* ------------------------------------------- JSScenario::createScenario
\* getScenario(id) found nothing
NoScenario == 0

\* emscripten_run_script of the user's scenario script and of setId: the
\* keys of the registry afterwards (a script that fails registers nothing)
RunScript(registry, id, registers) ==
    IF registers THEN registry \cup {id} ELSE registry

\* JSScenario::getScenario(id)
GetScenario(registry, id) == IF id \in registry THEN id ELSE NoScenario

\* what scenario->setRobogenConfig(config) on a null pointer can do
NullUseOutcomes == {"trap", "proceeds"}

\* One call createScenario(config).  registers: the user's script creates
\* and registers a scenario; ub: the outcome of the call through a null
\* pointer at line 102.
CreateScenario(registers, ub) ==
    LET id == nextId
        registry == RunScript(scenarios, id, registers)
        scenario == GetScenario(registry, id)
    IN  /\ lastCreate.outcome # "trapped"
        /\ nextId <= MaxScenarios
        /\ nextId' = nextId + 1
        /\ scenarios' = registry
        /\ IF scenario = NoScenario
           THEN /\ lastCreate' =
                       [id |-> id, found |-> FALSE, configured |-> NoScenario,
                        outcome |-> IF ub = "trap" THEN "trapped"
                                    ELSE "returnedNull"]
                /\ UNCHANGED liveScenarios
           ELSE /\ lastCreate' =
                       [id |-> id, found |-> TRUE, configured |-> scenario,
                        outcome |-> "returned"]
                /\ liveScenarios' = liveScenarios \cup {scenario}
        /\ UNCHANGED <<frameVars, sceneVars, clockVars>>

\* ~JSScenario of a scenario that createScenario returned
DestroyScenario(id) ==
    /\ lastCreate.outcome # "trapped"
    /\ id \in liveScenarios
    /\ scenarios' = scenarios \ {id}
    /\ liveScenarios' = liveScenarios \ {id}
    /\ UNCHANGED <<nextId, lastCreate>>
    /\ UNCHANGED <<frameVars, sceneVars, clockVars>>

CreateScenarioCall ==
    \E registers \in BOOLEAN, ub \in NullUseOutcomes :
        CreateScenario(registers, ub)

DestroyScenarioCall == \E id \in liveScenarios : DestroyScenario(id)

NextScenario == CreateScenarioCall \/ DestroyScenarioCall

SpecScenario == Init /\ [][NextScenario]_vars

\* ================================================================ claims
Returned == call.kind = "returned"

\* the configuration for which numTimeSteps % recordFrequency is defined
DefinedCadence == recording => recordFrequency >= 1

\* the configuration the specification allows: a positive speed factor
\* and, when recording, a positive recordFrequency
ValidConfiguration == speedFactor.num > 0 /\ DefinedCadence

\* simulatedTime > elapsedWallTime * speedFactor at the latest call (the
\* clock is not touched after the update of that call)
CallThrottled ==
    call.sim * speedFactor.den > elapsedWallTime * speedFactor.num

\* the timestep index of the latest call is on the recording cadence
CallOnCadence ==
    recording /\ recordFrequency >= 1 /\ call.steps % recordFrequency = 0

\* C1: a call of frame that reads the pause signal as true (at the draw
\* decision and again after the draw) has rendered a frame and has
\* returned false, whatever the recording and timing state.
C1_PauseDrawsAndBlocks ==
    (Returned /\ call.pausedAtEntry /\ paused)
        => (call.rendered /\ ~call.ret)

\* C1 witness: a paused call on the recording cadence of a recording viewer
\* whose clock has advanced rendered and returned false.
C1_Witness ==
    /\ ValidConfiguration /\ Returned /\ call.pausedAtEntry /\ paused
    /\ call.rendered /\ ~call.ret
    /\ CallOnCadence /\ elapsedWallTime > 0

\* C2: frame returns false exactly when, after the clock update, the viewer
\* is paused or simulatedTime > elapsedWallTime * speedFactor; a draw forced
\* only by the recording cadence or by the starvation bound returns true.
C2_ReturnValue ==
    Returned => (call.ret <=> ~(paused \/ CallThrottled))

\* C2 witness: a draw forced only by the starvation bound returned true.
C2_Witness ==
    /\ ValidConfiguration /\ Returned /\ ~recording /\ call.rendered /\ call.ret
    /\ ~call.pausedAtEntry /\ ~CallThrottled

\* C3: a frame is rendered iff paused, or recording and on the cadence, or
\* throttled, or timeSinceLastFrame >= MAX_TIME_BETWEEN_FRAMES after the
\* clock update; a rendered frame resets timeSinceLastFrame and a call
\* that renders nothing leaves the updated value.
C3_DrawDecision ==
    (Returned /\ DefinedCadence) =>
        /\ call.rendered <=> (\/ call.pausedAtEntry
                              \/ CallOnCadence
                              \/ CallThrottled
                              \/ call.sinceFrame >= MAX_TIME_BETWEEN_FRAMES)
        /\ call.rendered => timeSinceLastFrame = 0
        /\ ~call.rendered => timeSinceLastFrame = call.sinceFrame

\* C3 witness: a call in which none of the four conditions held rendered
\* nothing and kept a positive timeSinceLastFrame.
C3_Witness ==
    /\ ValidConfiguration /\ Returned /\ ~call.rendered
    /\ timeSinceLastFrame > 0

\* C4 as claimed: with recording enabled and recordFrequency = k >= 1, a
\* call of frame invokes record iff its timestep index mod k is 0.
C4_Original ==
    (ValidConfiguration /\ Returned /\ recording)
        => (call.recorded <=> call.steps % recordFrequency = 0)

\* C4 amended: with recording enabled and recordFrequency = k >= 1, a call
\* of frame invokes record iff its timestep index mod k is 0 and the call
\* returns true (a paused or throttled call returns before record).
C4_Cadence ==
    (Returned /\ recording /\ recordFrequency >= 1)
        => (call.recorded <=>
                (call.steps % recordFrequency = 0 /\ call.ret))

\* C4 witness: with recordFrequency = 2 one call armed a capture and a
\* later call on an odd index returned true without arming one.
C4_Witness ==
    /\ ValidConfiguration /\ Returned /\ recording /\ recordFrequency = 2
    /\ numRecords >= 1 /\ call.ret /\ ~call.recorded /\ call.steps = 1

\* the names of the first captures, as the files must be called
ExpectedFiles == <<"rec/0000.jpg", "rec/0001.jpg", "rec/0002.jpg",
                   "rec/0003.jpg", "rec/0004.jpg", "rec/0005.jpg">>

\* C5 as claimed: with recording enabled and no failed write, after n calls
\* of record frameCount is n and the files written are 0000.jpg ..
\* (n-1).jpg, in that order.
C5_Original ==
    (ValidConfiguration /\ recording /\ ~failedWrites) =>
        /\ frameCount = numRecords
        /\ Len(files) = numRecords
        /\ \A i \in 1..Len(files) : files[i] = ExpectedFiles[i]

\* C5 amended: with recording enabled and no failed write, after n calls of
\* record frameCount is n and the files written are 0000.jpg, 0001.jpg, ..
\* in that order, none skipped or repeated; the file of the latest capture
\* is written by the next rendered frame, so n-1 files exist while that
\* capture is armed and n once it is not.
C5_Files ==
    (recording /\ ~failedWrites) =>
        /\ frameCount = numRecords
        /\ Len(files) = numRecords - (IF snapImageOnNextFrame THEN 1 ELSE 0)
        /\ \A i \in 1..Len(files) : files[i] = ExpectedFiles[i]

\* C5 witness: two captures were armed and both files are written.
C5_Witness ==
    /\ ValidConfiguration /\ recording /\ ~failedWrites /\ numRecords = 2
    /\ files = <<"rec/0000.jpg", "rec/0001.jpg">>

\* C6 as claimed: in a run without pause and throttling a draw comes within
\* the starvation bound of the previous draw: when a frame is rendered, the
\* time since the previous one (as the viewer measures it, never more than
\* the true wall clock) is at most MAX_TIME_BETWEEN_FRAMES.
C6_Original ==
    (ValidConfiguration /\ Returned /\ cleanRun /\ call.rendered)
        => call.sinceFrame <= MAX_TIME_BETWEEN_FRAMES

\* C6 amended: in a run without pause and throttling a frame is rendered by
\* the first call of frame that finds timeSinceLastFrame >=
\* MAX_TIME_BETWEEN_FRAMES, so no call leaves timeSinceLastFrame at or
\* above the bound; the draw is late by whatever the wall clock advanced
\* past the bound before that call.
C6_Starvation ==
    (Returned /\ cleanRun) =>
        /\ call.sinceFrame >= MAX_TIME_BETWEEN_FRAMES => call.rendered
        /\ timeSinceLastFrame < MAX_TIME_BETWEEN_FRAMES

\* C6 witness: in such a run a call found the bound exceeded and rendered.
C6_Witness ==
    /\ ValidConfiguration /\ Returned /\ cleanRun /\ ~recording /\ call.rendered
    /\ call.sinceFrame > MAX_TIME_BETWEEN_FRAMES

\* C7 as claimed: when configureScene fails, root has no children.
C7_Atomic ==
    (ValidConfiguration /\ sceneResult = "failed") => root = <<>>

\* C8: after a successful configureScene with b body parts and o obstacles
\* the children of root are the b body parts in input order, one terrain,
\* then the o obstacles in input order.
C8_SceneOrder ==
    sceneResult = "ok" =>
        LET b == Len(bodyParts)
            o == numObstacles
        IN  /\ Len(root) = b + 1 + o
            /\ \A i \in 1..b : root[i] = [kind |-> "body", index |-> i]
            /\ root[b + 1].kind = "terrain"
            /\ \A j \in 1..o :
                   root[b + 1 + j] = [kind |-> "obstacle", index |-> j]

\* C8 witness: a scene of two body parts and two obstacles was composed.
C8_Witness ==
    ValidConfiguration /\ sceneResult = "ok" /\ Len(bodyParts) = 2 /\ numObstacles = 2

\* C9 as claimed: frameCount counts the successful writes, a failed write
\* does not count: whenever no capture is armed, frameCount is the number
\* of files written.
C9_CountsSuccessfulWrites ==
    (ValidConfiguration /\ recording /\ ~snapImageOnNextFrame)
        => frameCount = Len(files)

\* C10 as claimed: no viewer with speedFactor <= 0, or with recording and
\* recordFrequency = 0, gets to run frame.
C10_InvalidRejected ==
    call.kind # "none" =>
        (speedFactor.num > 0 /\ (recording => recordFrequency >= 1))

\* C11 as claimed: at the draw decision of every call of frame
\* timeSinceLastFrame is at most MAX_TIME_BETWEEN_FRAMES.
C11_Original ==
    (ValidConfiguration /\ Returned)
        => call.sinceFrame <= MAX_TIME_BETWEEN_FRAMES

\* C11 amended: timeSinceLastFrame is below MAX_TIME_BETWEEN_FRAMES
\* whenever frame is not running; at the draw decision it can be at or
\* above the bound (one call adds any wall-clock delta), and that call then
\* renders and leaves it at 0.
C11_BoundBetweenCalls ==
    /\ timeSinceLastFrame < MAX_TIME_BETWEEN_FRAMES
    /\ (Returned /\ call.sinceFrame >= MAX_TIME_BETWEEN_FRAMES)
           => (call.rendered /\ timeSinceLastFrame = 0)

\* C11 witness: a call of a recording viewer made its draw decision with
\* timeSinceLastFrame above the bound, rendered and reset it.
C11_Witness ==
    /\ ValidConfiguration /\ Returned /\ recording
    /\ call.sinceFrame > MAX_TIME_BETWEEN_FRAMES
    /\ call.rendered /\ timeSinceLastFrame = 0

\* C12: a call of frame that reads paused = true adds nothing to
\* elapsedWallTime (nor to timeSinceLastFrame) and still stores the clock
\* sample in tick1; every call adds at most the wall-clock time since the
\* call before it, so time that passed between two consecutive paused
\* calls is added neither during the pause nor by a later unpaused call.
C12_PausedTimeNotCounted ==
    /\ tick1 = 0
    /\ (Returned /\ call.pausedAtEntry)
           => (lastTick.added = 0 /\ lastTick.sinceAdded = 0)
    /\ lastTick.added * ClockPerMs <= lastTick.advance

\* C12 witness: after two consecutive paused calls an unpaused call added
\* time to elapsedWallTime, no more than the clock advanced since the
\* second paused call.
C12_Witness ==
    /\ ValidConfiguration /\ Returned /\ ~call.pausedAtEntry
    /\ lastTick.pausedBefore = 2
    /\ lastTick.added > 0
    /\ lastTick.added * ClockPerMs <= lastTick.advance

\* C13 as claimed: an unpaused call of frame adds the same delta to
\* elapsedWallTime and to timeSinceLastFrame, the delta is the wall-clock
\* time since the previous tick, and in a run without pauses
\* elapsedWallTime is the wall-clock time from construction to the latest
\* tick.
C13_NoWallTimeDropped ==
    /\ (ValidConfiguration /\ Returned /\ ~call.pausedAtEntry)
           => /\ lastTick.added = lastTick.sinceAdded
              /\ lastTick.added * ClockPerMs = lastTick.advance
    /\ (ValidConfiguration /\ ~lastTick.everPaused)
           => elapsedWallTime * ClockPerMs = wallClock

\* the timestep indices below k that are on the recording cadence
OnCadenceBelow(k, freq) == Cardinality({i \in 0..(k - 1) : i % freq = 0})

\* C15: when the simulation loop follows the protocol of frame, record has
\* been called exactly once for every timestep index on the cadence that
\* frame has let pass (returned true for) and not at all for the index the
\* loop is still waiting on, however many calls returned false; a call
\* that returns false does not call record, so it arms no capture and
\* leaves frameCount alone.
C15_OneRecordPerCadenceIndex ==
    (Returned /\ recording /\ recordFrequency >= 1) =>
        /\ numRecords =
               OnCadenceBelow(IF call.ret THEN call.steps + 1 ELSE call.steps,
                              recordFrequency)
        /\ frameCount = numRecords
        /\ ~call.ret => ~call.recorded

\* C15 witness: with recordFrequency = 1 the loop got false at least once
\* and the call that let timestep 1 pass made the second record.
C15_Witness ==
    /\ ValidConfiguration /\ Returned /\ recording /\ recordFrequency = 1
    /\ ~cleanRun /\ call.steps = 1 /\ call.ret /\ call.recorded
    /\ numRecords = 2

\* C16: a call of frame that calls record has rendered a frame (has called
\* viewer->frame()) before, in the same call.
C16_RecordAfterRender ==
    (Returned /\ DefinedCadence /\ call.recorded) => call.rendered

\* C16 witness: a call that was not paused, not throttled and not starved
\* rendered for the cadence alone and then called record.
C16_Witness ==
    /\ ValidConfiguration /\ Returned /\ call.recorded /\ call.rendered
    /\ ~call.pausedAtEntry /\ ~CallThrottled
    /\ call.sinceFrame < MAX_TIME_BETWEEN_FRAMES

\* C17 as claimed: when the loop got false from an unpaused viewer with a
\* positive speedFactor and keeps calling with the same simulatedTime while
\* the wall clock advances between the calls, it gets true in the end
\* (unless the viewer is paused meanwhile), also when the clock advances
\* by less than a millisecond per call.
C17_ThrottleReleases ==
    (ValidConfiguration /\ Returned /\ ~call.ret /\ ~paused)
        ~> (\/ paused
            \/ Returned /\ (call.ret \/ lastTick.advance = 0))

\* C18: record never arms a capture that is still armed: when it is called
\* the hook has consumed the previous capture in the frame rendered by the
\* same call, and the file name an armed capture waits with is that of the
\* latest frame index.
C18_NeverRearmed ==
    DefinedCadence =>
        /\ Returned => ~call.rearmed
        /\ snapImageOnNextFrame =>
               (frameCount >= 1 /\ filename = ExpectedFiles[frameCount])

\* C18 witness: the second capture is armed after the file of the first
\* one has been written.
C18_Witness ==
    /\ ValidConfiguration /\ Returned /\ call.recorded /\ ~call.rearmed
    /\ numRecords = 2 /\ snapImageOnNextFrame
    /\ files = <<"rec/0000.jpg">> /\ filename = "rec/0001.jpg"

\* C19 as claimed: one call of frame uses one value of the pause signal,
\* also when a P key is handled while the frame is rendered: a call that
\* entered paused (read the signal as true at the clock update and at the
\* draw decision) does not return true and does not call record.
C19_PauseObservedOnce ==
    (ValidConfiguration /\ Returned /\ call.pausedAtEntry)
        => (~call.ret /\ ~call.recorded)

\* C20 as claimed: createScenario does not use (configure or return) a
\* scenario that getScenario did not find, and every scenario it returned
\* is in the registry until its destructor removes it.
C20_MissingScenarioNotUsed ==
    /\ lastCreate.outcome # "none" =>
           (lastCreate.found /\ lastCreate.outcome = "returned")
    /\ liveScenarios \subseteq scenarios

====
